---- MODULE Spec2Model ----
(***************************************************************************)
(* Photo & Audio Video Synchronizer (src/app.py).                          *)
(*                                                                         *)
(* The model follows the request handler main() from the moment the        *)
(* "Create Video" button is pressed, and create_video() which it calls.    *)
(* Requests are handler runs in one server process: they share the working *)
(* directory (the scratch directory temmp_fold and output_video.mp4) and   *)
(* interleave at the granularity of the handler's file and media calls.    *)
(*                                                                         *)
(* The media library is modelled by what the handler relies on: a clip     *)
(* carries the content it was built from, its duration and its audio; a    *)
(* concatenation carries its segments in order and the sum of their        *)
(* durations.  Any library or file call inside the try blocks may raise.   *)
(***************************************************************************)
EXTENDS Integers, Sequences, FiniteSets, TLC

\* ------------------------------------------------------------------ bounds
NumRequests == 2        \* handler runs sharing one working directory
MaxUploads  == 2        \* files per uploader in the concurrent specification
MaxSlides   == 8        \* files per uploader in the single-request specification

\* ------------------------------------------------------- program constants
MinDuration     == 1    \* slider min_value
MaxDuration     == 20   \* slider max_value
DefaultDuration == 5    \* slider value

Requests        == 1..NumRequests
Durations       == MinDuration..MaxDuration
SampleDurations == {DefaultDuration}
SampleTypes     == {"audio/mpeg"}
AudioTypes      == {"audio/mpeg", "audio/wav"}

TempDir    == "temmp_fold"
OutputName == << "output_video.mp4" >>
Unbound    == << >>
NoClip     == [segments |-> << >>, duration |-> 0]
NoAudio    == "<no audio>"

MsgBothRequired == "Please upload both images and audio files!"
MsgCountsDiffer == "Number of images must match number of audio files!"
MsgSaving       == "Saving uploaded files..."
MsgCreating     == "Creating video... This may take a few minutes."
MsgSuccess      == "Video created successfully!"
MsgTryAgain     == "Please try again with different files or settings."

VARIABLES
    pc,               \* position of each handler run
    uploaded_images,  \* per request: the uploaded image blobs, in order
    uploaded_audio,   \* per request: the uploaded audio files (type, value)
    duration,         \* per request: slider value
    idx,              \* per request: index of the loop being run
    image_paths,      \* per request: main()'s image_paths
    audio_paths,      \* per request: main()'s audio_paths
    image_clips,      \* per request: create_video()'s image_clips
    final_clip,       \* per request: create_video()'s final_clip
    output_path,      \* per request: main()'s output_path, Unbound until assigned
    video_bytes,      \* per request: what was read back from the output file
    status_text,      \* per request: content of the status placeholder
    st_error,         \* per request: st.error message shown, "" if none
    delivered,        \* per request: download button and player rendered
    progress_bar,     \* per request: value of the progress bar
    exc,              \* per request: message of the exception in flight
    dirs,             \* directories of the working directory
    fs,               \* files of the working directory: path -> content
    progress_calls,   \* history: values passed to progress_callback
    errSite,          \* history: where the request's exception was raised
    wrapCount,        \* history: times create_video's except clause ran
    cvCalls,          \* history: times create_video was invoked
    mkdirCalls,       \* history: times os.mkdir was called
    written,          \* history: paths the request wrote
    validated,        \* history: requests in the order they passed validation
    startedAfter,     \* history: runs that had ended successfully when this one began
    outLog            \* history: operations on the output file, in order

vars == << pc, uploaded_images, uploaded_audio, duration, idx, image_paths,
           audio_paths, image_clips, final_clip, output_path, video_bytes,
           status_text, st_error, delivered, progress_bar, exc, dirs, fs,
           progress_calls, errSite, wrapCount, cvCalls, mkdirCalls, written,
           validated, startedAfter, outLog >>

\* ----------------------------------------------------------------- helpers
Min(a, b) == IF a <= b THEN a ELSE b

\* audio.type.split('/')[1]
Subtype(mime) == IF mime = "audio/mpeg" THEN "mpeg" ELSE "wav"

\* os.path.join(temp_dir, f"image_{idx}.jpg")
ImagePath(i) == << TempDir, "image_", i, ".jpg" >>

\* os.path.join(temp_dir, f"audio_{idx}.{audio.type.split('/')[1]}")
AudioPath(i, audio) == << TempDir, "audio_", i, Subtype(audio.type) >>

\* the upload widgets' values for a request with ni images and na audio files
ImageUploads(r, ni) == [i \in 1..ni |-> << "image", r, i - 1 >>]
AudioUploads(r, na, mime) ==
    [i \in 1..na |-> [type |-> mime, value |-> << "audio", r, i - 1 >>]]

\* not uploaded_images or not uploaded_audio
UploadsMissing(imgs, auds) == Len(imgs) = 0 \/ Len(auds) = 0

\* mutant: the count comparison is dropped
CountsNeverDiffer(imgs, auds) == FALSE

\* len(uploaded_images) != len(uploaded_audio)
CountsDiffer(imgs, auds) == Len(imgs) # Len(auds)

\* mutant: the clip keeps the slider's default instead of duration_per_slide
ImageClipDefaultDuration(content, d) ==
    [image |-> content, duration |-> DefaultDuration, audio |-> NoAudio]

\* ImageClip(img_path).set_duration(duration_per_slide)
ImageClip(content, d) == [image |-> content, duration |-> d, audio |-> NoAudio]

\* AudioFileClip(audio_path).set_duration(duration_per_slide)
AudioFileClip(content, d) == [source |-> content, duration |-> d]

\* clip.set_audio(audio)
SetAudio(clip, audio) == [clip EXCEPT !.audio = audio]

RECURSIVE SumDurations(_)
SumDurations(clips) ==
    IF clips = << >> THEN 0
    ELSE Head(clips).duration + SumDurations(Tail(clips))

\* concatenate_videoclips(image_clips, method="compose")
ConcatenateVideoclips(clips) ==
    [segments |-> clips, duration |-> SumDurations(clips)]

\* 40 + i * 10
AudioProgress(i) == 40 + i * 10

\* progress_bar.progress(int(value)) accepts 0..100 and raises otherwise
ProgressAccepted(value) == value \in 0..100

\* raise Exception(f"Error creating video: {str(e)}")
WrapError(msg) == << "Error creating video: " >> \o msg

\* status_text.error(f"Error: {str(e)}")
ErrorStatus(msg) == << "Error: " >> \o msg

\* mutant: cleanup asks whether the output file exists, not whether a path was returned
OutputFileExists(r) == OutputName \in DOMAIN fs

\* 'output_path' in locals()
OutputPathBound(r) == output_path[r] # Unbound

WriteFile(files, path, content) ==
    [p \in DOMAIN files \cup {path} |-> IF p = path THEN content ELSE files[p]]

RemoveFile(files, path) == [p \in DOMAIN files \ {path} |-> files[p]]

\* ---------------------------------------------------------------- initial
Init ==
    /\ pc = [r \in Requests |-> "idle"]
    /\ uploaded_images = [r \in Requests |-> << >>]
    /\ uploaded_audio = [r \in Requests |-> << >>]
    /\ duration = [r \in Requests |-> DefaultDuration]
    /\ idx = [r \in Requests |-> 0]
    /\ image_paths = [r \in Requests |-> << >>]
    /\ audio_paths = [r \in Requests |-> << >>]
    /\ image_clips = [r \in Requests |-> << >>]
    /\ final_clip = [r \in Requests |-> NoClip]
    /\ output_path = [r \in Requests |-> Unbound]
    /\ video_bytes = [r \in Requests |-> NoClip]
    /\ status_text = [r \in Requests |-> << >>]
    /\ st_error = [r \in Requests |-> ""]
    /\ delivered = [r \in Requests |-> FALSE]
    /\ progress_bar = [r \in Requests |-> 0]
    /\ exc = [r \in Requests |-> << >>]
    /\ dirs = {}
    /\ fs = [p \in {} |-> NoClip]
    /\ progress_calls = [r \in Requests |-> << >>]
    /\ errSite = [r \in Requests |-> "none"]
    /\ wrapCount = [r \in Requests |-> 0]
    /\ cvCalls = [r \in Requests |-> 0]
    /\ mkdirCalls = [r \in Requests |-> 0]
    /\ written = [r \in Requests |-> {}]
    /\ validated = << >>
    /\ startedAfter = [r \in Requests |-> {}]
    /\ outLog = << >>

\* the handler run of s passed validation and ended with no exception raised
RanThrough(s) ==
    /\ pc[s] = "done"
    /\ errSite[s] = "none"
    /\ \E i \in 1..Len(validated) : validated[i] = s

\* -------------------------------------------------- main(): lines 136-147
\* The button is pressed with ni images, na audio files and slider value d.
Click(r, cap, durs, mimes) ==
    /\ pc[r] = "idle"
    /\ \E ni \in 0..cap, na \in 0..cap, d \in durs, mime \in mimes :
         LET imgs == ImageUploads(r, ni)
             auds == AudioUploads(r, na, mime)
         IN  /\ uploaded_images' = [uploaded_images EXCEPT ![r] = imgs]
             /\ uploaded_audio' = [uploaded_audio EXCEPT ![r] = auds]
             /\ duration' = [duration EXCEPT ![r] = d]
             /\ IF UploadsMissing(imgs, auds)
                  THEN /\ st_error' = [st_error EXCEPT ![r] = MsgBothRequired]
                       /\ pc' = [pc EXCEPT ![r] = "done"]
                       /\ UNCHANGED validated
                  ELSE IF CountsDiffer(imgs, auds)
                  THEN /\ st_error' = [st_error EXCEPT ![r] = MsgCountsDiffer]
                       /\ pc' = [pc EXCEPT ![r] = "done"]
                       /\ UNCHANGED validated
                  ELSE /\ pc' = [pc EXCEPT ![r] = "mkdir"]
                       /\ validated' = Append(validated, r)
                       /\ UNCHANGED st_error
    /\ progress_bar' = [progress_bar EXCEPT ![r] = 0]
    /\ startedAfter' = [startedAfter EXCEPT ![r] = {s \in Requests : RanThrough(s)}]
    /\ UNCHANGED << idx, image_paths, audio_paths, image_clips, final_clip,
                    output_path, video_bytes, status_text, delivered, exc, dirs,
                    fs, progress_calls, errSite, wrapCount, cvCalls, mkdirCalls,
                    written, outLog >>

\* number of rounds of: for idx, (img, audio) in enumerate(zip(...))
SaveRounds(r) == Min(Len(uploaded_images[r]), Len(uploaded_audio[r]))

\* -------------------------------------------------- main(): lines 152-161
\* os.mkdir('temmp_fold') creates the directory
MkdirOk(r) ==
    /\ pc[r] = "mkdir"
    /\ TempDir \notin dirs
    /\ dirs' = dirs \cup {TempDir}
    /\ mkdirCalls' = [mkdirCalls EXCEPT ![r] = @ + 1]
    /\ image_paths' = [image_paths EXCEPT ![r] = << >>]
    /\ audio_paths' = [audio_paths EXCEPT ![r] = << >>]
    /\ idx' = [idx EXCEPT ![r] = 0]
    /\ status_text' = [status_text EXCEPT ![r] = << MsgSaving >>]
    /\ pc' = [pc EXCEPT ![r] = IF SaveRounds(r) > 0 THEN "save_img" ELSE "call_cv"]
    /\ UNCHANGED << uploaded_images, uploaded_audio, duration, image_clips,
                    final_clip, output_path, video_bytes, st_error, delivered,
                    progress_bar, exc, fs, progress_calls, errSite, wrapCount,
                    cvCalls, written, validated, startedAfter, outLog >>

\* mutant: an existing directory is tolerated (exist_ok) and the request goes on
MkdirExistOk(r) ==
    /\ pc[r] = "mkdir"
    /\ TempDir \in dirs
    /\ mkdirCalls' = [mkdirCalls EXCEPT ![r] = @ + 1]
    /\ image_paths' = [image_paths EXCEPT ![r] = << >>]
    /\ audio_paths' = [audio_paths EXCEPT ![r] = << >>]
    /\ idx' = [idx EXCEPT ![r] = 0]
    /\ status_text' = [status_text EXCEPT ![r] = << MsgSaving >>]
    /\ pc' = [pc EXCEPT ![r] = IF SaveRounds(r) > 0 THEN "save_img" ELSE "call_cv"]
    /\ UNCHANGED << uploaded_images, uploaded_audio, duration, image_clips,
                    final_clip, output_path, video_bytes, st_error, delivered,
                    progress_bar, exc, dirs, fs, progress_calls, errSite,
                    wrapCount, cvCalls, written, validated, startedAfter,
                    outLog >>

\* os.mkdir('temmp_fold') raises FileExistsError
MkdirExists(r) ==
    /\ pc[r] = "mkdir"
    /\ TempDir \in dirs
    /\ mkdirCalls' = [mkdirCalls EXCEPT ![r] = @ + 1]
    /\ exc' = [exc EXCEPT ![r] = << "FileExistsError" >>]
    /\ errSite' = [errSite EXCEPT ![r] = "mkdir"]
    /\ pc' = [pc EXCEPT ![r] = "except"]
    /\ UNCHANGED << uploaded_images, uploaded_audio, duration, idx, image_paths,
                    audio_paths, image_clips, final_clip, output_path,
                    video_bytes, status_text, st_error, delivered, progress_bar,
                    dirs, fs, progress_calls, wrapCount, cvCalls, written,
                    validated, startedAfter, outLog >>

Mkdir(r) == MkdirOk(r) \/ MkdirExists(r)

\* -------------------------------------------------- main(): lines 164-166
SaveImage(r) ==
    /\ pc[r] = "save_img"
    /\ LET img_path == ImagePath(idx[r])
       IN  /\ fs' = WriteFile(fs, img_path, uploaded_images[r][idx[r] + 1])
           /\ image_paths' = [image_paths EXCEPT ![r] = Append(@, img_path)]
           /\ written' = [written EXCEPT ![r] = @ \cup {img_path}]
    /\ pc' = [pc EXCEPT ![r] = "save_aud"]
    /\ UNCHANGED << uploaded_images, uploaded_audio, duration, idx, audio_paths,
                    image_clips, final_clip, output_path, video_bytes,
                    status_text, st_error, delivered, progress_bar, exc, dirs,
                    progress_calls, errSite, wrapCount, cvCalls, mkdirCalls,
                    validated, startedAfter, outLog >>

\* -------------------------------------------------- main(): lines 169-172
SaveAudio(r) ==
    /\ pc[r] = "save_aud"
    /\ LET audio == uploaded_audio[r][idx[r] + 1]
           audio_path == AudioPath(idx[r], audio)
       IN  /\ fs' = WriteFile(fs, audio_path, audio.value)
           /\ audio_paths' = [audio_paths EXCEPT ![r] = Append(@, audio_path)]
           /\ written' = [written EXCEPT ![r] = @ \cup {audio_path}]
    /\ idx' = [idx EXCEPT ![r] = @ + 1]
    /\ pc' = [pc EXCEPT ![r] =
                IF idx[r] + 1 < SaveRounds(r) THEN "save_img" ELSE "call_cv"]
    /\ UNCHANGED << uploaded_images, uploaded_audio, duration, image_paths,
                    image_clips, final_clip, output_path, video_bytes,
                    status_text, st_error, delivered, progress_bar, exc, dirs,
                    progress_calls, errSite, wrapCount, cvCalls, mkdirCalls,
                    validated, startedAfter, outLog >>

\* -------------------------- main(): lines 174-184, create_video(): line 14
CallCreateVideo(r) ==
    /\ pc[r] = "call_cv"
    /\ status_text' = [status_text EXCEPT ![r] = << MsgCreating >>]
    /\ cvCalls' = [cvCalls EXCEPT ![r] = @ + 1]
    /\ image_clips' = [image_clips EXCEPT ![r] = << >>]
    /\ idx' = [idx EXCEPT ![r] = 0]
    /\ pc' = [pc EXCEPT ![r] =
                IF Len(image_paths[r]) > 0 THEN "cv_img"
                ELSE "cv_concat"]
    /\ UNCHANGED << uploaded_images, uploaded_audio, duration, image_paths,
                    audio_paths, final_clip, output_path, video_bytes, st_error,
                    delivered, progress_bar, exc, dirs, fs, progress_calls,
                    errSite, wrapCount, mkdirCalls, written, validated,
                    startedAfter, outLog >>

\* number of rounds of: for i, (clip, audio_path) in enumerate(zip(...))
AttachRounds(clips, paths) == Min(Len(clips), Len(paths))

\* ------------------------------------------- create_video(): lines 15-18
BuildImageClip(r) ==
    /\ pc[r] = "cv_img"
    /\ image_paths[r][idx[r] + 1] \in DOMAIN fs
    /\ LET clip == ImageClip(fs[image_paths[r][idx[r] + 1]], duration[r])
           clips == Append(image_clips[r], clip)
           more == idx[r] + 1 < Len(image_paths[r])
       IN  /\ image_clips' = [image_clips EXCEPT ![r] = clips]
           /\ idx' = [idx EXCEPT ![r] = IF more THEN @ + 1 ELSE 0]
           /\ pc' = [pc EXCEPT ![r] =
                       IF more THEN "cv_img"
                       ELSE IF AttachRounds(clips, audio_paths[r]) > 0
                       THEN "cv_aud" ELSE "cv_concat"]
    /\ progress_calls' = [progress_calls EXCEPT ![r] = Append(@, 20)]
    /\ progress_bar' = [progress_bar EXCEPT ![r] = 20]
    /\ UNCHANGED << uploaded_images, uploaded_audio, duration, image_paths,
                    audio_paths, final_clip, output_path, video_bytes,
                    status_text, st_error, delivered, exc, dirs, fs, errSite,
                    wrapCount, cvCalls, mkdirCalls, written, validated,
                    startedAfter, outLog >>

\* ------------------------------------------- create_video(): lines 21-24
AttachAudio(r) ==
    /\ pc[r] = "cv_aud"
    /\ audio_paths[r][idx[r] + 1] \in DOMAIN fs
    /\ LET i == idx[r]
           audio == AudioFileClip(fs[audio_paths[r][i + 1]], duration[r])
           value == AudioProgress(i)
           more == i + 1 < AttachRounds(image_clips[r], audio_paths[r])
       IN  /\ image_clips' = [image_clips EXCEPT
                                ![r][i + 1] = SetAudio(image_clips[r][i + 1], audio)]
           /\ progress_calls' = [progress_calls EXCEPT ![r] = Append(@, value)]
           /\ IF ProgressAccepted(value)
                THEN /\ progress_bar' = [progress_bar EXCEPT ![r] = value]
                     /\ idx' = [idx EXCEPT ![r] = IF more THEN @ + 1 ELSE 0]
                     /\ pc' = [pc EXCEPT ![r] = IF more THEN "cv_aud" ELSE "cv_concat"]
                     /\ UNCHANGED << exc, errSite >>
                ELSE /\ exc' = [exc EXCEPT ![r] = << "StreamlitAPIException" >>]
                     /\ errSite' = [errSite EXCEPT ![r] = "create_video"]
                     /\ pc' = [pc EXCEPT ![r] = "cv_except"]
                     /\ UNCHANGED << progress_bar, idx >>
    /\ UNCHANGED << uploaded_images, uploaded_audio, duration, image_paths,
                    audio_paths, final_clip, output_path, video_bytes,
                    status_text, st_error, delivered, dirs, fs, wrapCount,
                    cvCalls, mkdirCalls, written, validated, startedAfter,
                    outLog >>

\* ------------------------------------------- create_video(): lines 27-28
Concatenate(r) ==
    /\ pc[r] = "cv_concat"
    /\ final_clip' = [final_clip EXCEPT ![r] = ConcatenateVideoclips(image_clips[r])]
    /\ progress_calls' = [progress_calls EXCEPT ![r] = Append(@, 80)]
    /\ progress_bar' = [progress_bar EXCEPT ![r] = 80]
    /\ pc' = [pc EXCEPT ![r] = "cv_write"]
    /\ UNCHANGED << uploaded_images, uploaded_audio, duration, idx, image_paths,
                    audio_paths, image_clips, output_path, video_bytes,
                    status_text, st_error, delivered, exc, dirs, fs, errSite,
                    wrapCount, cvCalls, mkdirCalls, written, validated,
                    startedAfter, outLog >>

\* content of an encoded file: the timeline, and whether encoding finished
Encoded(clip, complete) ==
    [segments |-> clip.segments, duration |-> clip.duration, complete |-> complete]

\* ------------------------------------------- create_video(): lines 31-32
WriteVideofile(r) ==
    /\ pc[r] = "cv_write"
    /\ fs' = WriteFile(fs, OutputName, Encoded(final_clip[r], TRUE))
    /\ written' = [written EXCEPT ![r] = @ \cup {OutputName}]
    /\ outLog' = Append(outLog, << "create", r >>)
    /\ pc' = [pc EXCEPT ![r] = "cv_final"]
    /\ UNCHANGED << uploaded_images, uploaded_audio, duration, idx, image_paths,
                    audio_paths, image_clips, final_clip, output_path,
                    video_bytes, status_text, st_error, delivered, progress_bar,
                    exc, dirs, progress_calls, errSite, wrapCount, cvCalls,
                    mkdirCalls, validated, startedAfter >>

\* write_videofile raises: before the file is created, or with part of it written
WriteVideofileRaises(r) ==
    /\ pc[r] = "cv_write"
    /\ \/ UNCHANGED << fs, written, outLog >>
       \/ /\ fs' = WriteFile(fs, OutputName, Encoded(final_clip[r], FALSE))
          /\ written' = [written EXCEPT ![r] = @ \cup {OutputName}]
          /\ outLog' = Append(outLog, << "create", r >>)
    /\ exc' = [exc EXCEPT ![r] = << "EncoderError" >>]
    /\ errSite' = [errSite EXCEPT ![r] = "create_video"]
    /\ pc' = [pc EXCEPT ![r] = "cv_except"]
    /\ UNCHANGED << uploaded_images, uploaded_audio, duration, idx, image_paths,
                    audio_paths, image_clips, final_clip, output_path,
                    video_bytes, status_text, st_error, delivered, progress_bar,
                    dirs, progress_calls, wrapCount, cvCalls, mkdirCalls,
                    validated, startedAfter >>

\* -------------------- create_video(): lines 33-35, main(): line 184 (assignment)
FinalProgress(r) ==
    /\ pc[r] = "cv_final"
    /\ progress_calls' = [progress_calls EXCEPT ![r] = Append(@, 100)]
    /\ progress_bar' = [progress_bar EXCEPT ![r] = 100]
    /\ output_path' = [output_path EXCEPT ![r] = OutputName]
    /\ pc' = [pc EXCEPT ![r] = "read_back"]
    /\ UNCHANGED << uploaded_images, uploaded_audio, duration, idx, image_paths,
                    audio_paths, image_clips, final_clip, video_bytes,
                    status_text, st_error, delivered, exc, dirs, fs, errSite,
                    wrapCount, cvCalls, mkdirCalls, written, validated,
                    startedAfter, outLog >>

\* a media call or a progress_callback call of create_video raises
MediaRaises(r) ==
    /\ pc[r] \in {"cv_img", "cv_aud", "cv_concat", "cv_final"}
    /\ exc' = [exc EXCEPT ![r] = << "MediaError" >>]
    /\ errSite' = [errSite EXCEPT ![r] = "create_video"]
    /\ pc' = [pc EXCEPT ![r] = "cv_except"]
    /\ UNCHANGED << uploaded_images, uploaded_audio, duration, idx, image_paths,
                    audio_paths, image_clips, final_clip, output_path,
                    video_bytes, status_text, st_error, delivered, progress_bar,
                    dirs, fs, progress_calls, wrapCount, cvCalls, mkdirCalls,
                    written, validated, startedAfter, outLog >>

\* mutant: the except clause re-raises the exception as it is
CreateVideoReraises(r) ==
    /\ pc[r] = "cv_except"
    /\ wrapCount' = [wrapCount EXCEPT ![r] = @ + 1]
    /\ pc' = [pc EXCEPT ![r] = "except"]
    /\ UNCHANGED << uploaded_images, uploaded_audio, duration, idx, image_paths,
                    audio_paths, image_clips, final_clip, output_path,
                    video_bytes, status_text, st_error, delivered, progress_bar,
                    exc, dirs, fs, progress_calls, errSite, cvCalls, mkdirCalls,
                    written, validated, startedAfter, outLog >>

\* ------------------------------------------- create_video(): lines 37-38
CreateVideoExcept(r) ==
    /\ pc[r] = "cv_except"
    /\ exc' = [exc EXCEPT ![r] = WrapError(@)]
    /\ wrapCount' = [wrapCount EXCEPT ![r] = @ + 1]
    /\ pc' = [pc EXCEPT ![r] = "except"]
    /\ UNCHANGED << uploaded_images, uploaded_audio, duration, idx, image_paths,
                    audio_paths, image_clips, final_clip, output_path,
                    video_bytes, status_text, st_error, delivered, progress_bar,
                    dirs, fs, progress_calls, errSite, cvCalls, mkdirCalls,
                    written, validated, startedAfter, outLog >>

\* -------------------------------------------------- main(): lines 187-190
ReadBack(r) ==
    /\ pc[r] = "read_back"
    /\ IF output_path[r] \in DOMAIN fs
         THEN /\ video_bytes' = [video_bytes EXCEPT ![r] = fs[output_path[r]]]
              /\ status_text' = [status_text EXCEPT ![r] = << MsgSuccess >>]
              /\ outLog' = Append(outLog, << "read", r >>)
              /\ pc' = [pc EXCEPT ![r] = "render"]
              /\ UNCHANGED << exc, errSite >>
         ELSE /\ exc' = [exc EXCEPT ![r] = << "FileNotFoundError" >>]
              /\ errSite' = [errSite EXCEPT ![r] = "read_back"]
              /\ pc' = [pc EXCEPT ![r] = "except"]
              /\ UNCHANGED << video_bytes, status_text, outLog >>
    /\ UNCHANGED << uploaded_images, uploaded_audio, duration, idx, image_paths,
                    audio_paths, image_clips, final_clip, output_path, st_error,
                    delivered, progress_bar, dirs, fs, progress_calls, wrapCount,
                    cvCalls, mkdirCalls, written, validated, startedAfter >>

\* -------------------------------------------------- main(): lines 191-204
Render(r) ==
    /\ pc[r] = "render"
    /\ delivered' = [delivered EXCEPT ![r] = TRUE]
    /\ pc' = [pc EXCEPT ![r] = "finally"]
    /\ UNCHANGED << uploaded_images, uploaded_audio, duration, idx, image_paths,
                    audio_paths, image_clips, final_clip, output_path,
                    video_bytes, status_text, st_error, progress_bar, exc, dirs,
                    fs, progress_calls, errSite, wrapCount, cvCalls, mkdirCalls,
                    written, validated, startedAfter, outLog >>

\* where main()'s own file and widget calls raise
RaiseSite(p) ==
    IF p \in {"save_img", "save_aud"} THEN "save" ELSE p

\* a file or widget call of main()'s try block raises
MainRaises(r) ==
    /\ pc[r] \in {"save_img", "save_aud", "read_back", "render"}
    /\ exc' = [exc EXCEPT ![r] = << "OSError" >>]
    /\ errSite' = [errSite EXCEPT ![r] = RaiseSite(pc[r])]
    /\ pc' = [pc EXCEPT ![r] = "except"]
    /\ UNCHANGED << uploaded_images, uploaded_audio, duration, idx, image_paths,
                    audio_paths, image_clips, final_clip, output_path,
                    video_bytes, status_text, st_error, delivered, progress_bar,
                    dirs, fs, progress_calls, wrapCount, cvCalls, mkdirCalls,
                    written, validated, startedAfter, outLog >>

\* -------------------------------------------------- main(): lines 208-210
Except(r) ==
    /\ pc[r] = "except"
    /\ status_text' = [status_text EXCEPT ![r] = ErrorStatus(exc[r])]
    /\ st_error' = [st_error EXCEPT ![r] = MsgTryAgain]
    /\ pc' = [pc EXCEPT ![r] = "finally"]
    /\ UNCHANGED << uploaded_images, uploaded_audio, duration, idx, image_paths,
                    audio_paths, image_clips, final_clip, output_path,
                    video_bytes, delivered, progress_bar, exc, dirs, fs,
                    progress_calls, errSite, wrapCount, cvCalls, mkdirCalls,
                    written, validated, startedAfter, outLog >>

\* -------------------------------------------------- main(): lines 212-218
\* os.remove(output_path) removes the file
FinallyRemoved(r) ==
    /\ OutputPathBound(r)
    /\ output_path[r] \in DOMAIN fs
    /\ fs' = RemoveFile(fs, output_path[r])
    /\ outLog' = Append(outLog, << "remove", r >>)

\* os.remove(output_path) raises, and the bare except passes
FinallyRemoveFailed(r) ==
    /\ OutputPathBound(r)
    /\ outLog' = Append(outLog, << "remove_failed", r >>)
    /\ UNCHANGED fs

\* output_path was never assigned: nothing is removed
FinallySkip(r) ==
    /\ ~OutputPathBound(r)
    /\ UNCHANGED << fs, outLog >>

\* mutant: the finally clause removes nothing
FinallyKeepsOutput(r) ==
    /\ pc[r] = "finally"
    /\ pc' = [pc EXCEPT ![r] = "done"]
    /\ UNCHANGED << uploaded_images, uploaded_audio, duration, idx, image_paths,
                    audio_paths, image_clips, final_clip, output_path,
                    video_bytes, status_text, st_error, delivered, progress_bar,
                    exc, dirs, fs, progress_calls, errSite, wrapCount, cvCalls,
                    mkdirCalls, written, validated, startedAfter, outLog >>

Finally(r) ==
    /\ pc[r] = "finally"
    /\ \/ FinallyRemoved(r)
       \/ FinallyRemoveFailed(r)
       \/ FinallySkip(r)
    /\ pc' = [pc EXCEPT ![r] = "done"]
    /\ UNCHANGED << uploaded_images, uploaded_audio, duration, idx, image_paths,
                    audio_paths, image_clips, final_clip, output_path,
                    video_bytes, status_text, st_error, delivered, progress_bar,
                    exc, dirs, progress_calls, errSite, wrapCount, cvCalls,
                    mkdirCalls, written, validated, startedAfter >>

\* ------------------------------------------------------------ specifications
Step(r) ==
    \/ Mkdir(r)
    \/ SaveImage(r)
    \/ SaveAudio(r)
    \/ CallCreateVideo(r)
    \/ BuildImageClip(r)
    \/ AttachAudio(r)
    \/ Concatenate(r)
    \/ WriteVideofile(r)
    \/ FinalProgress(r)
    \/ CreateVideoExcept(r)
    \/ ReadBack(r)
    \/ Render(r)
    \/ Except(r)
    \/ Finally(r)

Raises(r) ==
    \/ MainRaises(r)
    \/ MediaRaises(r)
    \/ WriteVideofileRaises(r)

\* requests of several sessions in one server process
Next ==
    \E r \in Requests :
        \/ Click(r, MaxUploads, SampleDurations, SampleTypes)
        \/ Step(r)
        \/ Raises(r)

Spec == Init /\ [][Next]_vars

\* one request, any slider value, up to MaxSlides pairs, in a working directory
\* that is fresh or still holds the scratch directory of an earlier run
SoloInit ==
    \E old \in {{}, {TempDir}} :
        /\ dirs = old
        /\ pc = [r \in Requests |-> "idle"]
        /\ uploaded_images = [r \in Requests |-> << >>]
        /\ uploaded_audio = [r \in Requests |-> << >>]
        /\ duration = [r \in Requests |-> DefaultDuration]
        /\ idx = [r \in Requests |-> 0]
        /\ image_paths = [r \in Requests |-> << >>]
        /\ audio_paths = [r \in Requests |-> << >>]
        /\ image_clips = [r \in Requests |-> << >>]
        /\ final_clip = [r \in Requests |-> NoClip]
        /\ output_path = [r \in Requests |-> Unbound]
        /\ video_bytes = [r \in Requests |-> NoClip]
        /\ status_text = [r \in Requests |-> << >>]
        /\ st_error = [r \in Requests |-> ""]
        /\ delivered = [r \in Requests |-> FALSE]
        /\ progress_bar = [r \in Requests |-> 0]
        /\ exc = [r \in Requests |-> << >>]
        /\ fs = [p \in {} |-> NoClip]
        /\ progress_calls = [r \in Requests |-> << >>]
        /\ errSite = [r \in Requests |-> "none"]
        /\ wrapCount = [r \in Requests |-> 0]
        /\ cvCalls = [r \in Requests |-> 0]
        /\ mkdirCalls = [r \in Requests |-> 0]
        /\ written = [r \in Requests |-> {}]
        /\ validated = << >>
        /\ startedAfter = [r \in Requests |-> {}]
        /\ outLog = << >>

SoloNext ==
    \/ Click(1, MaxSlides, Durations, AudioTypes)
    \/ Step(1)
    \/ Raises(1)

SoloSpec == SoloInit /\ [][SoloNext]_vars

\* ------------------------------------------------------ vocabulary of claims
Clicked(r) == pc[r] # "idle"
Finished(r) == pc[r] = "done"
Slides(r) == Len(uploaded_images[r])
PassedValidation(r) == \E i \in 1..Len(validated) : validated[i] = r
CreateVideoReturned(r) == pc[r] \in {"read_back", "render"} \/ output_path[r] # Unbound
CompletedRun(r) == Finished(r) /\ PassedValidation(r) /\ errSite[r] = "none"

\* the operations request r performed on the output file, in order
OutputOps(r) ==
    LET mine == SelectSeq(outLog, LAMBDA e : e[2] = r)
    IN  [i \in 1..Len(mine) |-> mine[i][1]]

NonDecreasing(seq) == \A i \in 1..(Len(seq) - 1) : seq[i] <= seq[i + 1]

\* C1: in every successful run of create_video the values passed to the
\* progress callback are non-decreasing integers in 0..100 and the last is 100.
ProgressMonotoneTo100 ==
    \A r \in Requests :
        CreateVideoReturned(r) =>
            /\ NonDecreasing(progress_calls[r])
            /\ \A i \in 1..Len(progress_calls[r]) : progress_calls[r][i] \in 0..100
            /\ progress_calls[r] # << >>
            /\ progress_calls[r][Len(progress_calls[r])] = 100

\* C6: in a successful run with N pairs the callback is invoked N + 3 times:
\* 20 once, then N values within 40..80, then 80, then 100.
ProgressCallSchedule ==
    \A r \in Requests :
        CreateVideoReturned(r) =>
            LET calls == progress_calls[r]
                n == Len(image_paths[r])
            IN  /\ Len(calls) = n + 3
                /\ calls[1] = 20
                /\ \A i \in 2..(n + 1) : calls[i] \in 40..80
                /\ calls[n + 2] = 80
                /\ calls[n + 3] = 100

\* C2: a request with no images, no audio or unequal counts is rejected with a
\* form-level error and does no work: no mkdir, no file written, no create_video.
InvalidRequestRejected ==
    /\ \A r \in Requests :
        (/\ Clicked(r)
         /\ \/ Len(uploaded_images[r]) = 0
            \/ Len(uploaded_audio[r]) = 0
            \/ Len(uploaded_images[r]) # Len(uploaded_audio[r]))
        => /\ Finished(r)
           /\ st_error[r] \in {MsgBothRequired, MsgCountsDiffer}
           /\ status_text[r] = << >>
           /\ mkdirCalls[r] = 0
           /\ written[r] = {}
           /\ image_paths[r] = << >> /\ audio_paths[r] = << >>
           /\ cvCalls[r] = 0
           /\ output_path[r] = Unbound
    /\ (\A r \in Requests : ~PassedValidation(r)) => dirs = {} /\ DOMAIN fs = {}

InvalidRequestRejectedWitness ==
    \E r \in Requests :
        /\ Finished(r)
        /\ Len(uploaded_images[r]) >= 1
        /\ Len(uploaded_audio[r]) >= 1
        /\ Len(uploaded_images[r]) # Len(uploaded_audio[r])
        /\ st_error[r] = MsgCountsDiffer

\* a timeline holds exactly request r's pairs, in index order, each of the
\* slider's duration
TimelineOf(r, clip) ==
    /\ Len(clip.segments) = Slides(r)
    /\ Len(clip.segments) = Len(uploaded_audio[r])
    /\ \A i \in 1..Len(clip.segments) :
         /\ clip.segments[i].image = uploaded_images[r][i]
         /\ clip.segments[i].duration = duration[r]
         /\ clip.segments[i].audio =
                [source |-> uploaded_audio[r][i].value, duration |-> duration[r]]
    /\ clip.duration = Slides(r) * duration[r]

OutputGoneAfterSuccess ==
    \A r \in Requests :
        CompletedRun(r) =>
            /\ OutputOps(r) \in {<< "create", "read", "remove" >>,
                                 << "create", "read", "remove_failed" >>}
            /\ OutputName \notin DOMAIN fs
            /\ status_text[r] = << MsgSuccess >>

\* C4 (amended): a successful run creates the output file, reads it back and
\* only then attempts its deletion; the file is gone when the deletion
\* succeeded, and a failed deletion leaves the reported outcome a success.
OutputLifecycle ==
    \A r \in Requests :
        CompletedRun(r) =>
            /\ OutputOps(r) \in {<< "create", "read", "remove" >>,
                                 << "create", "read", "remove_failed" >>}
            /\ OutputOps(r)[3] = "remove" => OutputName \notin DOMAIN fs
            /\ status_text[r] = << MsgSuccess >>
            /\ st_error[r] = ""
            /\ delivered[r]
            /\ video_bytes[r] = Encoded(final_clip[r], TRUE)

OutputLifecycleWitness ==
    \E r \in Requests :
        /\ CompletedRun(r)
        /\ OutputOps(r) = << "create", "read", "remove" >>
        /\ OutputName \notin DOMAIN fs

\* the same files and slider value submitted in two requests
SameInputs(r, s) ==
    /\ Len(uploaded_images[r]) = Len(uploaded_images[s])
    /\ Len(uploaded_audio[r]) = Len(uploaded_audio[s])
    /\ \A i \in 1..Len(uploaded_audio[r]) :
         uploaded_audio[r][i].type = uploaded_audio[s][i].type
    /\ duration[r] = duration[s]

\* C5: a second run with identical inputs, started after the first completed
\* successfully, succeeds with the same segment count and total duration.
RerunGivesSameOutput ==
    \A r, s \in Requests :
        (/\ r # s
         /\ CompletedRun(r)
         /\ r \in startedAfter[s]
         /\ SameInputs(r, s)
         /\ Finished(s))
        => /\ errSite[s] = "none"
           /\ Len(video_bytes[s].segments) = Len(video_bytes[r].segments)
           /\ video_bytes[s].duration = video_bytes[r].duration

\* C7: a failure inside create_video is caught once, wrapped and re-raised; no
\* path is returned, the handler reports the error, delivers nothing, retries
\* nothing and leaves the scratch files it wrote in place.
CreateVideoFailureHandled ==
    \A r \in Requests :
        errSite[r] = "create_video" =>
            /\ pc[r] \in {"cv_except", "except", "finally", "done"}
            /\ output_path[r] = Unbound
            /\ ~delivered[r]
            /\ video_bytes[r] = NoClip
            /\ cvCalls[r] = 1 /\ mkdirCalls[r] = 1
            /\ Len(progress_calls[r]) <= 2 * Slides(r) + 2
            /\ wrapCount[r] = (IF pc[r] = "cv_except" THEN 0 ELSE 1)
            /\ pc[r] # "cv_except" =>
                   Len(exc[r]) = 2 /\ exc[r][1] = "Error creating video: "
            /\ pc[r] \in {"finally", "done"} =>
                   /\ status_text[r] = << "Error: ", "Error creating video: ", exc[r][2] >>
                   /\ st_error[r] = MsgTryAgain
            /\ Finished(r) => OutputOps(r) \in {<< >>, << "create" >>}
            /\ TempDir \in dirs
            /\ Len(image_paths[r]) = Slides(r) /\ Len(audio_paths[r]) = Slides(r)
            /\ \A i \in 1..Slides(r) :
                 /\ image_paths[r][i] \in DOMAIN fs
                 /\ fs[image_paths[r][i]] = uploaded_images[r][i]
                 /\ audio_paths[r][i] \in DOMAIN fs
                 /\ fs[audio_paths[r][i]] = uploaded_audio[r][i].value

CreateVideoFailureHandledWitness ==
    \E r \in Requests :
        /\ Finished(r)
        /\ errSite[r] = "create_video"
        /\ Slides(r) = 2
        /\ status_text[r] = << "Error: ", "Error creating video: ", "MediaError" >>

\* request r holds files it wrote and has not finished
InUse(r) == written[r] # {} /\ ~Finished(r)

NoSharedPath ==
    \A r, s \in Requests : r # s => written[r] \cap written[s] = {}

\* request r's os.mkdir call created the scratch directory
Creator(r) == mkdirCalls[r] > 0 /\ errSite[r] # "mkdir"

\* the request finished in the error state raised by os.mkdir, with no work done
FailedAtMkdir(s) ==
    /\ errSite[s] = "mkdir"
    /\ pc[s] \in {"except", "finally", "done"}
    /\ pc[s] \in {"finally", "done"} =>
           status_text[s] = << "Error: ", "FileExistsError" >>
    /\ written[s] = {}
    /\ cvCalls[s] = 0
    /\ output_path[s] = Unbound
    /\ ~delivered[s]

\* C9 as stated: the scratch directory is never removed, and every request that
\* passes validation after another one did ends in error at os.mkdir.
LaterValidatedRequestFails ==
    /\ (\E r \in Requests : Creator(r)) => TempDir \in dirs
    /\ \A i \in 2..Len(validated) :
         pc[validated[i]] # "mkdir" => FailedAtMkdir(validated[i])

\* C9 (amended): the scratch directory is never removed, and once a request has
\* created it, every other request that passes validation ends in error at
\* os.mkdir without writing a file, calling create_video or producing output.
ScratchDirBlocksOthers ==
    /\ (\E r \in Requests : Creator(r)) => TempDir \in dirs
    /\ \A r, s \in Requests :
         (r # s /\ Creator(r) /\ PassedValidation(s) /\ pc[s] # "mkdir")
             => FailedAtMkdir(s)

ScratchDirBlocksOthersWitness ==
    \E r, s \in Requests :
        /\ r # s
        /\ Creator(r)
        /\ Finished(s)
        /\ errSite[s] = "mkdir"
        /\ r \in startedAfter[s]

\* C10 as stated: a failure inside create_video after the encoder wrote the
\* file leaves it on disk undeleted; a failure after create_video returned
\* ends with the file deleted.
OutputDeletedOnlyAfterReturn ==
    \A r \in Requests :
        Finished(r) =>
            /\ (errSite[r] = "create_video" /\ OutputName \in written[r]) =>
                   /\ OutputOps(r) = << "create" >>
                   /\ OutputName \in DOMAIN fs
            /\ errSite[r] \in {"read_back", "render"} =>
                   OutputName \notin DOMAIN fs

\* C10 (amended): a failure inside create_video after the encoder wrote the
\* file leaves it on disk with no deletion attempted; a failure after
\* create_video returned ends with the deletion attempted, and the file gone
\* unless the deletion itself failed.
OutputDeletionFollowsReturn ==
    \A r \in Requests :
        Finished(r) =>
            /\ (errSite[r] = "create_video" /\ OutputName \in written[r]) =>
                   /\ OutputOps(r) = << "create" >>
                   /\ OutputName \in DOMAIN fs
            /\ errSite[r] \in {"read_back", "render"} =>
                   /\ OutputOps(r) # << >>
                   /\ OutputOps(r)[Len(OutputOps(r))] \in {"remove", "remove_failed"}
                   /\ OutputOps(r)[Len(OutputOps(r))] = "remove"
                          => OutputName \notin DOMAIN fs

OutputDeletionFollowsReturnWitness ==
    \E r \in Requests :
        /\ Finished(r)
        /\ errSite[r] = "create_video"
        /\ OutputName \in written[r]
        /\ OutputName \in DOMAIN fs
        /\ ~fs[OutputName].complete

====
